---- MODULE Spec2Model ----
(***************************************************************************)
(* Model of src/pomodoro/pomodoro.py: the pomodoro timer for Waybar.       *)
(*                                                                         *)
(* Every run of main() is one process: it loads the pickled Pomodoro       *)
(* object (get_pomodoro), advances it (update_status), applies the action  *)
(* given on the command line, stamps and pickles it (save_pomodoro) and    *)
(* prints the Waybar payload.  Time is counted in ticks of 1/TicksPerSec   *)
(* second.  A timestamp is kept relative to the present instant: the       *)
(* field since_update of an object is datetime.now() - last_update_date,   *)
(* the only way the program ever reads last_update_date.                   *)
(***************************************************************************)
EXTENDS Integers, Sequences, FiniteSets, TLC

\* ---------------------------------------------------------------- bounds
TicksPerSec == 2       \* resolution of the clock: ticks in one second
MaxPomodoros == 5      \* pomodoros is not counted past this
MaxElapsed == 5000     \* seconds: the clock is not let run further from last_update_date
MaxRun == 4            \* longest run of identical consecutive calls that is recorded
MaxCrashes == 1        \* processes in a row that may die before one saves

\* -------------------------------------------------------------- constants
POMODORO == 1500
SHORT_BREAK == 300
LONG_BREAK == 900
ENABLE_LONG_BREAK == TRUE
ENABLE_NOTIFICATIONS == TRUE
\* the daily reset switched on
ENABLE_DAILY_RESET_on == TRUE

ENABLE_DAILY_RESET == FALSE

\* TimerState (StrEnum values)
IDLE == "idle"
WORK == "work"
SHORT == "short_break"
LONG == "long_break"
PAUSED == "paused"
TimerState == {IDLE, WORK, SHORT, LONG, PAUSED}

\* Action (StrEnum values)
Action == {"status", "toggle", "skip", "reset", "stop"}

\* The pickle file is absent
NoFile == [absent |-> TRUE]

\* A file that does not hold the pickle of a Pomodoro: no permission to
\* read it, cut short (or empty), bytes changed, or the pickle of something
\* else (another class, a class that is gone)
BadKinds == {"unreadable", "truncated", "corrupt", "mismatch"}
Bad(kind) == [bad |-> kind]
Damaged == {Bad(k) : k \in BadKinds}

\* the file holds the pickle of a Pomodoro
is_pickle(f) == f \notin ({NoFile} \cup Damaged)

\* Seconds that may pass between the end of one run of main() and the
\* start of the next, and the same in ticks, with a sub-second wait and
\* a clock that was set back.
JumpSecs == {0, 100, SHORT_BREAK, POMODORO, POMODORO + 1, 2000, -100}
Jumps == {s * TicksPerSec : s \in JumpSecs} \cup {1, -1}

\* What running notify-send can do: exit 0, exit non-zero, or not start
Notifier == {"ok", "nonzero", "absent"}

VARIABLES
    pc,        \* position of main(): "wait" (no process), "loaded", "updated"
    file,      \* DATA_FILE: NoFile or the pickled object
    self,      \* the Pomodoro object of the running (or last) process
    notes,     \* titles passed to send_notification by this process
    ran,       \* how many times this process launched notify-send
    outcome,   \* how the last process ended: "none", "ok", "crash"
    run,       \* the current run of identical consecutive calls (observer)
    crashes,   \* processes that died since the file was last written (observer)
    waited,    \* ticks between the end of the last process and this one (observer)
    racers,    \* two processes started together: position and object of each
    disk,      \* bytes left in the file behind the pickle, and who wrote last
    drift      \* ticks a running phase has lasted less the ticks charged to it (observer)

vars == <<pc, file, self, notes, ran, outcome, run, crashes, waited,
          racers, disk, drift>>

\* what only the specifications of racing and of polling processes change
aux == <<racers, disk, drift>>

\* ------------------------------------------------------------- the object

\* Pomodoro.__init__
Pomodoro ==
    [status |-> IDLE, previous_status |-> IDLE, time_left |-> 0,
     pomodoros |-> 0, since_update |-> 0]

\* status, previous_status, time_left and pomodoros of an object
Rec(p) ==
    [status |-> p.status, previous_status |-> p.previous_status,
     time_left |-> p.time_left, pomodoros |-> p.pomodoros]

\* the status setter forgetting previous_status
set_status_plain(p, value) ==
    [p EXCEPT !.status = value]

\* the status setter
set_status(p, value) ==
    [p EXCEPT !.previous_status = p.status, !.status = value]

\* next_break testing the count before it is incremented
next_break_old_count(p) ==
    LET q == [p EXCEPT !.pomodoros = @ + 1]
    IN  IF p.pomodoros % 4 = 0 /\ ENABLE_LONG_BREAK
        THEN [set_status(q, LONG) EXCEPT !.time_left = LONG_BREAK]
        ELSE [set_status(q, SHORT) EXCEPT !.time_left = SHORT_BREAK]

\* Pomodoro.next_break
next_break(p) ==
    LET q == [p EXCEPT !.pomodoros = @ + 1]
    IN  IF q.pomodoros % 4 = 0 /\ ENABLE_LONG_BREAK
        THEN [set_status(q, LONG) EXCEPT !.time_left = LONG_BREAK]
        ELSE [set_status(q, SHORT) EXCEPT !.time_left = SHORT_BREAK]

\* abs(int(elapsed.total_seconds())): int() truncates towards zero
elapsed_seconds(e) ==
    IF e >= 0 THEN e \div TicksPerSec ELSE (0 - e) \div TicksPerSec

Max(a, b) == IF a >= b THEN a ELSE b

\* line 124 without max(0, ..)
decrement_unclamped(time_left, e) == time_left - elapsed_seconds(e)

\* line 124: max(0, self.time_left - abs(int(elapsed.total_seconds())))
decrement(time_left, e) == Max(0, time_left - elapsed_seconds(e))

\* update_status taking a pause for a running phase
Active_with_paused == {WORK, SHORT, LONG, PAUSED}

Active == {WORK, SHORT, LONG}
Breaks == {SHORT, LONG}

\* line 125: the timer ran out in this call
expired(p, time_left) == time_left <= 0 /\ p.time_left > 0

\* the titles update_status passes to send_notification
update_notes(p) ==
    IF p.status \in Active
       /\ expired(p, decrement(p.time_left, p.since_update))
    THEN IF p.status = WORK THEN <<"Pomodoro Complete!">>
                            ELSE <<"Break Complete!">>
    ELSE <<>>

\* the object as update_status leaves it when send_notification raises:
\* line 124 has run, the transition has not
update_aborted(p) ==
    [p EXCEPT !.time_left = decrement(p.time_left, p.since_update)]

\* update_status charging the overshoot of a break to the work session
update_status_carry(p, past4am) ==
    LET q == IF p.status \in Active
             THEN LET d == update_aborted(p)
                  IN  IF expired(p, d.time_left)
                      THEN IF p.status = WORK
                           THEN next_break(d)
                           ELSE [set_status(d, WORK) EXCEPT !.time_left =
                                   Max(0, POMODORO - (elapsed_seconds(p.since_update) - p.time_left))]
                      ELSE d
             ELSE p
    IN  IF ENABLE_DAILY_RESET /\ past4am
        THEN [q EXCEPT !.pomodoros = 0]
        ELSE q

\* Pomodoro.update_status; past4am is datetime.now() > self._next_4_am
update_status(p, past4am) ==
    LET q == IF p.status \in Active
             THEN LET d == update_aborted(p)
                  IN  IF expired(p, d.time_left)
                      THEN IF p.status = WORK
                           THEN next_break(d)
                           ELSE [set_status(d, WORK) EXCEPT !.time_left = POMODORO]
                      ELSE d
             ELSE p
    IN  IF ENABLE_DAILY_RESET /\ past4am
        THEN [q EXCEPT !.pomodoros = 0]
        ELSE q

\* toggle pausing whatever is not paused, the idle timer too
toggle_pauses_idle(p) ==
    IF p.status = PAUSED
    THEN set_status(p, p.previous_status)
    ELSE set_status(p, PAUSED)

\* toggle resuming every pause into a work session
toggle_resume_work(p) ==
    IF p.status = IDLE
    THEN [set_status(p, WORK) EXCEPT !.time_left = POMODORO]
    ELSE IF p.status = PAUSED
         THEN set_status(p, WORK)
         ELSE set_status(p, PAUSED)

\* Pomodoro.toggle
toggle(p) ==
    IF p.status = IDLE
    THEN [set_status(p, WORK) EXCEPT !.time_left = POMODORO]
    ELSE IF p.status = PAUSED
         THEN set_status(p, p.previous_status)
         ELSE set_status(p, PAUSED)

\* reset keeping the count
reset_keeps_count(p) ==
    [set_status(p, IDLE) EXCEPT !.time_left = 0]

\* Pomodoro.reset
reset(p) ==
    [set_status(p, IDLE) EXCEPT !.time_left = 0, !.pomodoros = 0]

\* skip counting a session whatever the status
skip_always_break(p) == next_break(p)

\* skip taking every pause for a paused work session
skip_pause_is_work(p) ==
    IF p.status \in Breaks
    THEN [set_status(p, WORK) EXCEPT !.time_left = POMODORO]
    ELSE next_break(p)

\* Pomodoro.skip
skip(p) ==
    IF p.status \in Breaks
       \/ (p.status = PAUSED /\ p.previous_status \in Breaks)
    THEN [set_status(p, WORK) EXCEPT !.time_left = POMODORO]
    ELSE next_break(p)

\* stop leaving time_left as it was
stop_keeps_time(p) == set_status(p, IDLE)

\* stop wiping the count
stop_wipes_count(p) ==
    [set_status(p, IDLE) EXCEPT !.time_left = 0, !.pomodoros = 0]

\* Pomodoro.stop
stop(p) ==
    [set_status(p, IDLE) EXCEPT !.time_left = 0]

\* get_pomodoro: the pickled object; a new one when there is no file or
\* when open() or pickle.load() raises one of the four caught exceptions
get_pomodoro(f) == IF is_pickle(f) THEN f ELSE Pomodoro

\* get_pomodoro can return: PermissionError, EOFError and UnpicklingError
\* are caught, which is all a file without permission or cut short raises,
\* and what changed bytes may raise
get_pomodoro_returns(f) == f # Bad("mismatch")

\* the process can die of the file: changed bytes may raise what line 190
\* does not catch (UnicodeDecodeError, ValueError, AttributeError, ..); the
\* pickle of an unknown class raises AttributeError or ModuleNotFoundError
\* in pickle.load, the pickle of another type is returned as it is and
\* raises AttributeError at the first use in update_status
get_pomodoro_raises(f) == f \in {Bad("corrupt"), Bad("mismatch")}

\* how the process ends: an exception nobody catches ends it with a
\* traceback and a non-zero exit before the payload is printed
main_exit_swallowed(raised) == "ok"

main_exit(raised) == IF raised THEN "crash" ELSE "ok"

\* save_pomodoro without the stamp
save_pomodoro_unstamped(data) == data

\* save_pomodoro: last_update_date = datetime.now(), then pickle.dump
save_pomodoro(data) == [data EXCEPT !.since_update = 0]

\* send_notification: "none" (nothing launched), "ran", or "raised"
send_notification(debug, notifier) ==
    IF ~debug /\ ENABLE_NOTIFICATIONS
    THEN IF notifier = "absent" THEN "raised" ELSE "ran"
    ELSE "none"

\* skip announcing the break it enters
command_notes_skip(a, p) ==
    IF a = "skip" /\ p.status = WORK THEN <<"Pomodoro Complete!">> ELSE <<>>

\* the titles toggle, skip, reset and stop pass to send_notification: none
command_notes(a, p) == <<>>

\* the match statement of main()
apply(a, p) ==
    CASE a = "toggle" -> toggle(p)
      [] a = "skip"   -> skip(p)
      [] a = "reset"  -> reset(p)
      [] a = "stop"   -> stop(p)
      [] OTHER        -> p

\* ------------------------------------------------------------ the observer

\* run.recs = <<r0, r1, .., rk>>: run.action was called k times in a row,
\* on r0, with nothing else changing the object in between; ri is the
\* object after call i.
next_run(a, before, after) ==
    IF /\ run.action = a
       /\ Len(run.recs) >= 1
       /\ Len(run.recs) <= MaxRun
       /\ run.recs[Len(run.recs)] = Rec(before)
    THEN [action |-> a, recs |-> Append(run.recs, Rec(after))]
    ELSE [action |-> a, recs |-> <<Rec(before), Rec(after)>>]

\* ----------------------------------------------------------------- actions

Init ==
    /\ pc = "wait"
    /\ file = NoFile
    /\ self = Pomodoro
    /\ notes = <<>>
    /\ ran = 0
    /\ outcome = "none"
    /\ run = [action |-> "none", recs |-> <<>>]
    /\ crashes = 0
    /\ waited = 0
    /\ racers = [i \in 1..2 |-> [pc |-> "none", self |-> Pomodoro]]
    /\ disk = [residue |-> 0, writer |-> 0]
    /\ drift = 0

\* d ticks after the last process ended a new one starts: main() up to
\* and including get_pomodoro()
Start(d) ==
    /\ pc = "wait"
    /\ get_pomodoro_returns(file)
    /\ is_pickle(file) =>
          /\ file.since_update + d <= MaxElapsed * TicksPerSec
          /\ file.since_update + d >= 0 - MaxElapsed * TicksPerSec
    /\ file' = IF is_pickle(file)
               THEN [file EXCEPT !.since_update = @ + d]
               ELSE file
    /\ self' = get_pomodoro(file')
    /\ notes' = <<>>
    /\ ran' = 0
    /\ outcome' = "none"
    /\ waited' = d
    /\ pc' = "loaded"
    /\ UNCHANGED <<run, crashes>>
    /\ UNCHANGED aux

\* pomodoro.update_status() returns
UpdateStatus(past4am, debug, notifier) ==
    /\ pc = "loaded"
    /\ update_status(self, past4am).pomodoros <= MaxPomodoros
    /\ update_notes(self) # <<>> => send_notification(debug, notifier) # "raised"
    /\ self' = update_status(self, past4am)
    /\ notes' = notes \o update_notes(self)
    /\ ran' = IF update_notes(self) # <<>>
                 /\ send_notification(debug, notifier) = "ran"
              THEN ran + 1 ELSE ran
    /\ pc' = "updated"
    /\ UNCHANGED <<file, outcome, run, crashes, waited>>
    /\ UNCHANGED aux

\* pomodoro.update_status() raises out of send_notification: notify-send
\* cannot be launched, the process dies and nothing is saved
UpdateStatusRaises(debug, notifier) ==
    /\ pc = "loaded"
    /\ crashes < MaxCrashes
    /\ update_notes(self) # <<>>
    /\ send_notification(debug, notifier) = "raised"
    /\ self' = update_aborted(self)
    /\ notes' = notes \o update_notes(self)
    /\ outcome' = "crash"
    /\ crashes' = crashes + 1
    /\ pc' = "wait"
    /\ UNCHANGED <<file, ran, run, waited>>
    /\ UNCHANGED aux

\* the rest of main(): the match statement, save_pomodoro, the payload
Command(a) ==
    /\ pc = "updated"
    /\ apply(a, self).pomodoros <= MaxPomodoros
    /\ self' = save_pomodoro(apply(a, self))
    /\ file' = self'
    /\ run' = next_run(a, self, apply(a, self))
    /\ outcome' = main_exit(FALSE)
    /\ crashes' = 0
    /\ pc' = "wait"
    /\ notes' = notes \o command_notes(a, self)
    /\ UNCHANGED <<ran, waited>>
    /\ UNCHANGED aux

Status == Command("status")
Toggle == Command("toggle")
Skip == Command("skip")
Reset == Command("reset")
Stop == Command("stop")

Next ==
    \/ \E d \in Jumps : Start(d)
    \/ \E past4am \in BOOLEAN, debug \in BOOLEAN, notifier \in Notifier :
          UpdateStatus(past4am, debug, notifier)
    \/ \E debug \in BOOLEAN, notifier \in Notifier :
          UpdateStatusRaises(debug, notifier)
    \/ Status
    \/ Toggle
    \/ Skip
    \/ Reset
    \/ Stop

Spec == Init /\ [][Next]_vars

\* ------------------------------------------------- the file and its faults

\* ticks between processes in the specifications of the file
StoreJumps == {0, 100 * TicksPerSec, (POMODORO + 1) * TicksPerSec}

\* between two processes the file is damaged from outside
Damage(kind) ==
    /\ pc = "wait"
    /\ file # NoFile
    /\ file' = Bad(kind)
    /\ UNCHANGED <<pc, self, notes, ran, outcome, run, crashes, waited>>
    /\ UNCHANGED aux

\* a process starts and dies of the file, in get_pomodoro or at the first
\* use of what it returned
StartRaises(d) ==
    /\ pc = "wait"
    /\ get_pomodoro_raises(file)
    /\ notes' = <<>>
    /\ ran' = 0
    /\ outcome' = main_exit(TRUE)
    /\ waited' = d
    /\ UNCHANGED <<pc, file, self, run, crashes>>
    /\ UNCHANGED aux

NextLoad ==
    \/ \E d \in StoreJumps : Start(d)
    \/ \E d \in StoreJumps : StartRaises(d)
    \/ \E kind \in BadKinds : Damage(kind)
    \/ \E past4am \in BOOLEAN, debug \in BOOLEAN, notifier \in Notifier :
          UpdateStatus(past4am, debug, notifier)
    \/ \E debug \in BOOLEAN, notifier \in Notifier :
          UpdateStatusRaises(debug, notifier)
    \/ Status
    \/ Toggle
    \/ Skip
    \/ Reset
    \/ Stop

\* main() with a file that may be damaged between processes
SpecLoad == Init /\ [][NextLoad]_vars

\* the match statement of main(), before save_pomodoro
Apply(a) ==
    /\ pc = "updated"
    /\ apply(a, self).pomodoros <= MaxPomodoros
    /\ self' = apply(a, self)
    /\ run' = next_run(a, self, apply(a, self))
    /\ notes' = notes \o command_notes(a, self)
    /\ pc' = "matched"
    /\ UNCHANGED <<file, ran, outcome, crashes, waited>>
    /\ UNCHANGED aux

\* save_pomodoro, lines 197-198: the stamp, and open("wb"), which empties
\* the file
SaveOpen ==
    /\ pc = "matched"
    /\ self' = save_pomodoro(self)
    /\ file' = Bad("truncated")
    /\ pc' = "opened"
    /\ UNCHANGED <<notes, ran, outcome, run, crashes, waited>>
    /\ UNCHANGED aux

\* open("wb") raises (no permission, read-only file system): the file is
\* as it was
SaveOpenRaises ==
    /\ pc = "matched"
    /\ crashes < MaxCrashes
    /\ self' = save_pomodoro(self)
    /\ outcome' = main_exit(TRUE)
    /\ crashes' = crashes + 1
    /\ pc' = "wait"
    /\ UNCHANGED <<file, notes, ran, run, waited>>
    /\ UNCHANGED aux

\* save_pomodoro, line 199 and the end of the with block: the pickle is
\* written; then main() returns and the payload is printed
SaveWrite ==
    /\ pc = "opened"
    /\ file' = self
    /\ outcome' = main_exit(FALSE)
    /\ crashes' = 0
    /\ pc' = "wait"
    /\ UNCHANGED <<self, notes, ran, run, waited>>
    /\ UNCHANGED aux

\* the write raises (disk full, I/O error): the file stays empty
SaveWriteRaises ==
    /\ pc = "opened"
    /\ crashes < MaxCrashes
    /\ outcome' = main_exit(TRUE)
    /\ crashes' = crashes + 1
    /\ pc' = "wait"
    /\ UNCHANGED <<file, self, notes, ran, run, waited>>
    /\ UNCHANGED aux

\* the process is killed
Kill ==
    /\ pc # "wait"
    /\ crashes < MaxCrashes
    /\ outcome' = "killed"
    /\ crashes' = crashes + 1
    /\ pc' = "wait"
    /\ UNCHANGED <<file, self, notes, ran, run, waited>>
    /\ UNCHANGED aux

NextSave ==
    \/ \E d \in StoreJumps : Start(d)
    \/ \E past4am \in BOOLEAN, debug \in BOOLEAN, notifier \in Notifier :
          UpdateStatus(past4am, debug, notifier)
    \/ \E debug \in BOOLEAN, notifier \in Notifier :
          UpdateStatusRaises(debug, notifier)
    \/ \E a \in Action : Apply(a)
    \/ SaveOpen
    \/ SaveOpenRaises
    \/ SaveWrite
    \/ SaveWriteRaises
    \/ Kill

\* main() with save_pomodoro in its steps, failing writes and kills
SpecSave == Init /\ [][NextSave]_vars

\* ------------------------------------------------------- two racing processes

\* length of the name of a TimerState member
name_len(st) ==
    CASE st = IDLE -> 4
      [] st = WORK -> 4
      [] st = SHORT -> 11
      [] st = LONG -> 10
      [] st = PAUSED -> 6

\* bytes pickle.dump writes for a Pomodoro: an int takes one byte more
\* from 256 on, a member of TimerState is written with its name the first
\* time and as a two-byte reference the second time
pickle_len(p) ==
    211 + name_len(p.previous_status)
        + (IF p.status = p.previous_status THEN 2 ELSE 9 + name_len(p.status))
        + (IF p.time_left >= 256 THEN 1 ELSE 0)
        + (IF p.pomodoros >= 256 THEN 1 ELSE 0)

\* bytes in the file
file_size(f, residue) == IF is_pickle(f) THEN pickle_len(f) + residue ELSE 0

\* the write landing behind what the file holds, as with open("ab")
write_appended(f, residue, data) ==
    IF is_pickle(f)
    THEN [file |-> f, residue |-> residue + pickle_len(data)]
    ELSE [file |-> data, residue |-> 0]

\* the file after the pickle of data is written at offset 0 of a file
\* opened with "wb": what it held further on stays, and pickle.load
\* ignores bytes behind the pickle
write_at_start(f, residue, data) ==
    [file |-> data,
     residue |-> Max(0, file_size(f, residue) - pickle_len(data))]

\* files a pair of processes may find: made by toggle, skip and a wait
RaceFiles ==
    {NoFile,
     save_pomodoro(toggle(Pomodoro)),
     [save_pomodoro(toggle(Pomodoro)) EXCEPT !.since_update = (POMODORO + 1) * TicksPerSec],
     save_pomodoro(skip(Pomodoro)),
     save_pomodoro(toggle(toggle(Pomodoro)))}

RaceInit ==
    /\ pc = "wait"
    /\ file \in RaceFiles
    /\ self = Pomodoro
    /\ notes = <<>>
    /\ ran = 0
    /\ outcome = "none"
    /\ run = [action |-> "none", recs |-> <<>>]
    /\ crashes = 0
    /\ waited = 0
    /\ racers = [i \in 1..2 |-> [pc |-> "start", self |-> Pomodoro]]
    /\ disk = [residue |-> 0, writer |-> 0]
    /\ drift = 0

main_vars == <<pc, self, notes, ran, outcome, run, crashes, waited, drift>>

\* process i: get_pomodoro
RaceLoad(i) ==
    /\ racers[i].pc = "start"
    /\ racers' = [racers EXCEPT ![i] = [pc |-> "loaded", self |-> get_pomodoro(file)]]
    /\ UNCHANGED <<file, disk>>
    /\ UNCHANGED main_vars

\* process i: update_status returns
RaceUpdate(i, debug, notifier) ==
    /\ racers[i].pc = "loaded"
    /\ update_notes(racers[i].self) # <<>> => send_notification(debug, notifier) # "raised"
    /\ racers' = [racers EXCEPT ![i] =
                    [pc |-> "updated", self |-> update_status(racers[i].self, FALSE)]]
    /\ UNCHANGED <<file, disk>>
    /\ UNCHANGED main_vars

\* process i: update_status raises out of send_notification
RaceUpdateRaises(i, debug, notifier) ==
    /\ racers[i].pc = "loaded"
    /\ update_notes(racers[i].self) # <<>>
    /\ send_notification(debug, notifier) = "raised"
    /\ racers' = [racers EXCEPT ![i] =
                    [pc |-> "dead", self |-> update_aborted(racers[i].self)]]
    /\ UNCHANGED <<file, disk>>
    /\ UNCHANGED main_vars

\* process i: the match statement
RaceApply(i, a) ==
    /\ racers[i].pc = "updated"
    /\ racers' = [racers EXCEPT ![i] =
                    [pc |-> "matched", self |-> apply(a, racers[i].self)]]
    /\ UNCHANGED <<file, disk>>
    /\ UNCHANGED main_vars

\* process i: the stamp and open("wb")
RaceOpen(i) ==
    /\ racers[i].pc = "matched"
    /\ racers' = [racers EXCEPT ![i] =
                    [pc |-> "opened", self |-> save_pomodoro(racers[i].self)]]
    /\ file' = Bad("truncated")
    /\ disk' = [disk EXCEPT !.residue = 0]
    /\ UNCHANGED main_vars

\* process i: the pickle is written, at the offset of its own open file
RaceWrite(i) ==
    /\ racers[i].pc = "opened"
    /\ racers' = [racers EXCEPT ![i].pc = "done"]
    /\ file' = write_at_start(file, disk.residue, racers[i].self).file
    /\ disk' = [residue |-> write_at_start(file, disk.residue, racers[i].self).residue,
                writer |-> i]
    /\ UNCHANGED main_vars

NextRace ==
    \/ \E i \in 1..2 : RaceLoad(i)
    \/ \E i \in 1..2, debug \in BOOLEAN, notifier \in Notifier :
          RaceUpdate(i, debug, notifier)
    \/ \E i \in 1..2, debug \in BOOLEAN, notifier \in Notifier :
          RaceUpdateRaises(i, debug, notifier)
    \/ \E i \in 1..2, a \in Action : RaceApply(i, a)
    \/ \E i \in 1..2 : RaceOpen(i)
    \/ \E i \in 1..2 : RaceWrite(i)

\* two runs of main() started together on one file
SpecRace == RaceInit /\ [][NextRace]_vars

\* ------------------------------------------------------------------ polling

MaxDrift == 2          \* seconds: a phase is not followed further behind the clock

\* ticks between two polls: less than a second, a hundred seconds and a
\* tick, and more than any phase lasts
PollJumps == {1, 100 * TicksPerSec + 1, (POMODORO + 1) * TicksPerSec}

\* the file as a process starting d ticks later finds it
aged(f, d) == IF is_pickle(f) THEN [f EXCEPT !.since_update = @ + d] ELSE f

\* drift after a run of main() that started d ticks after the last one,
\* loaded the object `loaded`, advanced it to `updated` and saved `final`:
\* a phase that goes on has lasted d ticks more and was charged what
\* update_status took from time_left; a phase that begins starts at 0
next_drift(d, loaded, updated, final) ==
    IF /\ loaded.status \in Active
       /\ updated.status = loaded.status
       /\ final.status = loaded.status
    THEN drift + d - (loaded.time_left - updated.time_left) * TicksPerSec
    ELSE 0

\* what send_notification can do, over DEBUG and the notifier
Launches ==
    {send_notification(debug, notifier) : debug \in BOOLEAN, notifier \in Notifier}

\* one whole run of main() d ticks after the last one, with action a;
\* launch is what send_notification does if it is called
Poll(d, a, launch) ==
    LET loaded == get_pomodoro(aged(file, d))
        updated == update_status(loaded, FALSE)
        final == save_pomodoro(apply(a, updated))
    IN  /\ pc = "wait"
        /\ get_pomodoro_returns(file)
        /\ launch # "raised"
        /\ final.pomodoros <= MaxPomodoros
        /\ next_drift(d, loaded, updated, final) <= MaxDrift * TicksPerSec
        /\ self' = final
        /\ file' = final
        /\ notes' = update_notes(loaded) \o command_notes(a, updated)
        /\ ran' = IF update_notes(loaded) # <<>> /\ launch = "ran" THEN 1 ELSE 0
        /\ outcome' = main_exit(FALSE)
        /\ run' = next_run(a, updated, final)
        /\ crashes' = 0
        /\ waited' = d
        /\ drift' = next_drift(d, loaded, updated, final)
        /\ UNCHANGED <<pc, racers, disk>>

\* one run of main() that dies in send_notification: nothing is saved
PollRaises(d, launch) ==
    LET loaded == get_pomodoro(aged(file, d))
    IN  /\ pc = "wait"
        /\ get_pomodoro_returns(file)
        /\ crashes < MaxCrashes
        /\ update_notes(loaded) # <<>>
        /\ launch = "raised"
        /\ self' = update_aborted(loaded)
        /\ file' = aged(file, d)
        /\ notes' = update_notes(loaded)
        /\ ran' = 0
        /\ outcome' = main_exit(TRUE)
        /\ crashes' = crashes + 1
        /\ waited' = d
        /\ drift' = drift + d
        /\ UNCHANGED <<pc, run, racers, disk>>

NextPoll ==
    \/ \E d \in PollJumps, a \in Action, launch \in Launches :
          Poll(d, a, launch)
    \/ \E d \in PollJumps, launch \in Launches :
          PollRaises(d, launch)

\* main() run again and again, the clock compared with what is charged
SpecPoll == Init /\ [][NextPoll]_vars

\* ------------------------------------------------------------------ claims

\* update_status has returned
UpdateStep == pc = "loaded" /\ pc' = "updated"

\* the match statement applied action a and the object was saved
CommandStep(a) == pc = "updated" /\ pc' = "wait" /\ run'.action = a

\* the object the last call of the current run was made on
RunBefore == run.recs[Len(run.recs) - 1]

\* C1: time_left is never negative, in the object of the process and in
\* the file, however much time has passed.
C1_TimeLeftNonNegative ==
    /\ self.time_left >= 0
    /\ file # NoFile => file.time_left >= 0

\* update_status returned after more time than any phase lasts
C1_Witness ==
    /\ pc = "updated"
    /\ self.status \in Active
    /\ elapsed_seconds(self.since_update) > POMODORO
    /\ self.time_left >= 0

\* C2: a status invocation that starts zero time after a status
\* invocation persists the same status, previous_status, time_left and
\* pomodoros as the first one did, and requests no notification.
C2_EdgeTriggered ==
    [][(CommandStep("status") /\ run.action = "status" /\ crashes = 0
          /\ waited = 0 /\ file # NoFile)
        => (Rec(file') = Rec(file) /\ notes' = <<>> /\ ran' = 0)]_vars

\* a status invocation found a work session just entered from a break,
\* and a second one has run at the same instant
C2_Witness ==
    /\ pc = "wait"
    /\ outcome = "ok"
    /\ run.action = "status"
    /\ Len(run.recs) >= 3
    /\ RunBefore.status = WORK
    /\ RunBefore.previous_status \in Breaks
    /\ RunBefore.time_left = POMODORO
    /\ waited = 0
    /\ notes = <<>>
    /\ Rec(self) = RunBefore
    /\ Rec(file) = RunBefore

\* C3: update_status in WORK with time_left > 0 and at least time_left
\* elapsed adds one to pomodoros, enters LONG_BREAK with 900 s when the
\* new count is a multiple of 4 and SHORT_BREAK with 300 s otherwise, and
\* requests exactly one notification.
C3_WorkExpiry ==
    [][(UpdateStep /\ self.status = WORK /\ self.time_left > 0
          /\ self.since_update >= self.time_left * TicksPerSec)
        => /\ self'.pomodoros = self.pomodoros + 1
           /\ IF self'.pomodoros % 4 = 0
              THEN self'.status = "long_break" /\ self'.time_left = 900
              ELSE self'.status = "short_break" /\ self'.time_left = 300
           /\ notes' = <<"Pomodoro Complete!">>]_vars

\* toggle from IDLE, then WORK duration + 1 s later update_status
C3_Witness ==
    /\ pc = "updated"
    /\ run.action = "toggle"
    /\ RunBefore.status = IDLE
    /\ self.since_update = (POMODORO + 1) * TicksPerSec
    /\ self.status = SHORT
    /\ self.previous_status = WORK
    /\ self.time_left = SHORT_BREAK
    /\ self.pomodoros = 1
    /\ notes = <<"Pomodoro Complete!">>

\* C4: update_status in a break with time_left > 0 and at least time_left
\* elapsed enters WORK with 1500 s, leaves pomodoros alone and requests
\* exactly one notification; one process requests at most one.
C4_BreakExpiry ==
    [][/\ (UpdateStep /\ self.status \in Breaks /\ self.time_left > 0
             /\ self.since_update >= self.time_left * TicksPerSec)
          => /\ self'.status = "work"
             /\ self'.time_left = 1500
             /\ self'.pomodoros = self.pomodoros
             /\ notes' = <<"Break Complete!">>
       /\ Len(notes') <= 1]_vars

\* a short break ran out and the time of a whole work session passed too
C4_Witness ==
    /\ pc = "updated"
    /\ elapsed_seconds(self.since_update) >= SHORT_BREAK + POMODORO
    /\ self.status = WORK
    /\ self.previous_status = SHORT
    /\ self.time_left = POMODORO
    /\ notes = <<"Break Complete!">>

\* C5: toggle twice in a row on an active phase pauses it and then
\* resumes the same phase with the time_left and pomodoros it had.
C5_ToggleTwice ==
    run.action = "toggle" =>
        \A i \in 1..(Len(run.recs) - 2) :
            run.recs[i].status \in Active =>
                /\ run.recs[i + 1].status = PAUSED
                /\ run.recs[i + 2].status = run.recs[i].status
                /\ run.recs[i + 2].time_left = run.recs[i].time_left
                /\ run.recs[i + 2].pomodoros = run.recs[i].pomodoros

\* a break with part of its time gone was paused and resumed
C5_Witness ==
    /\ pc = "wait"
    /\ run.action = "toggle"
    /\ Len(run.recs) = 3
    /\ run.recs[1].status = LONG
    /\ run.recs[1].time_left = LONG_BREAK - 100
    /\ run.recs[2].status = PAUSED
    /\ Rec(self) = run.recs[3]
    /\ self.status = LONG

\* the current run is of skip and started on a new Pomodoro()
SkipsFromDefault ==
    /\ run.action = "skip"
    /\ Len(run.recs) >= 2
    /\ run.recs[1] = Rec(Pomodoro)

\* C6 as claimed: of four skips in a row on a new Pomodoro() the first
\* three give SHORT_BREAK and the fourth gives LONG_BREAK with pomodoros 4.
C6_FourSkipsClaimed ==
    SkipsFromDefault =>
        \A k \in 1..(Len(run.recs) - 1) :
            /\ k <= 3 => run.recs[k + 1].status = SHORT
            /\ k = 4 => /\ run.recs[k + 1].status = LONG
                        /\ run.recs[k + 1].pomodoros = 4

\* C6 amended: of four skips in a row on a new Pomodoro() the first and
\* third give SHORT_BREAK with 300 s, the second and fourth give WORK
\* with 1500 s, and pomodoros is 1, 1, 2, 2 after them.
C6_FourSkips ==
    SkipsFromDefault =>
        \A k \in 1..(Len(run.recs) - 1) :
            k <= 4 =>
                /\ run.recs[k + 1].pomodoros = (k + 1) \div 2
                /\ IF k % 2 = 1
                   THEN /\ run.recs[k + 1].status = SHORT
                        /\ run.recs[k + 1].time_left = 300
                   ELSE /\ run.recs[k + 1].status = WORK
                        /\ run.recs[k + 1].time_left = 1500

\* four skips in a row were made on a new Pomodoro()
C6_Witness ==
    /\ pc = "wait"
    /\ SkipsFromDefault
    /\ Len(run.recs) = 5
    /\ Rec(self) = run.recs[5]
    /\ self.status = WORK
    /\ self.pomodoros = 2

\* C7: skip in a break, or paused in a break, enters WORK with 1500 s and
\* leaves pomodoros alone; anywhere else it adds one to pomodoros and
\* enters LONG_BREAK with 900 s when the new count is a multiple of 4,
\* SHORT_BREAK with 300 s otherwise.
C7_SkipCases ==
    [][CommandStep("skip") =>
        IF \/ self.status \in {"short_break", "long_break"}
           \/ /\ self.status = "paused"
              /\ self.previous_status \in {"short_break", "long_break"}
        THEN /\ self'.status = "work"
             /\ self'.time_left = 1500
             /\ self'.pomodoros = self.pomodoros
        ELSE /\ self'.pomodoros = self.pomodoros + 1
             /\ IF self'.pomodoros % 4 = 0
                THEN self'.status = "long_break" /\ self'.time_left = 900
                ELSE self'.status = "short_break" /\ self'.time_left = 300]_vars

\* skip was called on a paused break
C7_Witness ==
    /\ pc = "wait"
    /\ run.action = "skip"
    /\ RunBefore.status = PAUSED
    /\ RunBefore.previous_status = SHORT
    /\ RunBefore.pomodoros = 1
    /\ self.status = WORK
    /\ self.time_left = POMODORO
    /\ self.pomodoros = 1

\* C8: reset leaves status IDLE, time_left 0 and pomodoros 0.
C8_Reset ==
    [][CommandStep("reset") =>
        /\ self'.status = "idle"
        /\ self'.time_left = 0
        /\ self'.pomodoros = 0]_vars

\* reset was called on a paused session with sessions counted
C8_Witness ==
    /\ pc = "wait"
    /\ run.action = "reset"
    /\ RunBefore.status = PAUSED
    /\ RunBefore.time_left > 0
    /\ RunBefore.pomodoros = 2
    /\ Rec(self) = [status |-> IDLE, previous_status |-> PAUSED,
                    time_left |-> 0, pomodoros |-> 0]

\* C9: stop leaves status IDLE and time_left 0 and does not change
\* pomodoros.
C9_Stop ==
    [][CommandStep("stop") =>
        /\ self'.status = "idle"
        /\ self'.time_left = 0
        /\ self'.pomodoros = self.pomodoros]_vars

\* stop was called in a work session with sessions counted
C9_Witness ==
    /\ pc = "wait"
    /\ run.action = "stop"
    /\ RunBefore.status = WORK
    /\ RunBefore.time_left > 0
    /\ RunBefore.pomodoros = 3
    /\ Rec(self) = [status |-> IDLE, previous_status |-> WORK,
                    time_left |-> 0, pomodoros |-> 3]

\* the step assigns status: a transition in update_status, or any action
\* but status
AssignsStatus ==
    \/ UpdateStep /\ notes' # notes
    \/ pc = "updated" /\ pc' = "wait" /\ run'.action # "status"

\* C10: every step of a process that assigns status leaves in
\* previous_status the status of before the assignment, and no other
\* step of a process changes status or previous_status.
C10_PreviousStatus ==
    [][pc # "wait" =>
        IF AssignsStatus
        THEN self'.previous_status = self.status
        ELSE /\ self'.status = self.status
             /\ self'.previous_status = self.previous_status]_vars

\* a paused long break was resumed by toggle
C10_Witness ==
    /\ pc = "wait"
    /\ run.action = "toggle"
    /\ RunBefore.status = PAUSED
    /\ RunBefore.previous_status = LONG
    /\ self.status = LONG
    /\ self.previous_status = PAUSED

\* update_status finds a phase run out: the seconds it charges reach
\* time_left
Expires(p) ==
    /\ p.status \in {"work", "short_break", "long_break"}
    /\ p.time_left > 0
    /\ elapsed_seconds(p.since_update) >= p.time_left

\* C11: pomodoros goes down only by reset, to 0; it goes up by exactly 1
\* when update_status finds a work session run out; update_status
\* otherwise (a break run out too), status, toggle, stop and skip out of a
\* break leave it alone.
C11_PomodorosMonotonic ==
    [][/\ self'.pomodoros < self.pomodoros
            => CommandStep("reset") /\ self'.pomodoros = 0
       /\ self'.pomodoros > self.pomodoros
            => self'.pomodoros = self.pomodoros + 1
       /\ UpdateStep =>
            self'.pomodoros = IF Expires(self) /\ self.status = "work"
                              THEN self.pomodoros + 1
                              ELSE self.pomodoros
       /\ (CommandStep("toggle") \/ CommandStep("stop") \/ CommandStep("status"))
            => self'.pomodoros = self.pomodoros
       /\ (/\ CommandStep("skip")
           /\ \/ self.status \in {"short_break", "long_break"}
              \/ /\ self.status = "paused"
                 /\ self.previous_status \in {"short_break", "long_break"})
            => self'.pomodoros = self.pomodoros]_vars

\* the fourth work session ran out
C11_Witness ==
    /\ pc = "updated"
    /\ notes = <<"Pomodoro Complete!">>
    /\ self.previous_status = WORK
    /\ self.status = LONG
    /\ self.pomodoros = 4

\* C12 as claimed: with the clock earlier than last_update_date an active
\* phase keeps its time_left and update_status makes no transition and
\* requests no notification; update_status without a transition never
\* raises time_left.
C12_ElapsedClamped ==
    [][UpdateStep =>
        /\ (self.status \in Active /\ self.since_update < 0)
             => Rec(self') = Rec(self) /\ notes' = <<>>
        /\ notes' = <<>> => self'.time_left <= self.time_left]_vars

\* C13: send_notification is called only by update_status, when a phase
\* has run out; the match statement, whatever the action, calls it not at
\* all and launches nothing.
C13_NotifyOnlyOnExpiry ==
    [][/\ Len(notes') > Len(notes)
            => /\ pc = "loaded"
               /\ Expires(self)
               /\ notes' = IF self.status = "work"
                           THEN <<"Pomodoro Complete!">>
                           ELSE <<"Break Complete!">>
       /\ ran' > ran => pc = "loaded" /\ Expires(self)
       /\ pc = "updated" => notes' = notes /\ ran' = ran]_vars

\* skip has moved a work session into its break, unannounced
C13_Witness ==
    /\ pc = "wait"
    /\ outcome = "ok"
    /\ run.action = "skip"
    /\ RunBefore.status = WORK
    /\ self.status = SHORT
    /\ notes = <<>>
    /\ ran = 0

\* C14 as claimed: whatever notify-send does, update_status returns with
\* the transition made and no process dies.
C14_NotifierSwallowed ==
    [][(pc = "loaded" /\ pc' # pc) =>
        /\ pc' = "updated"
        /\ outcome' # "crash"
        /\ Rec(self') = Rec(update_status(self, FALSE))]_vars

\* C19: update_status leaves a paused or idle object alone; a status
\* invocation on a paused file persists what it found, whatever time has
\* passed; the toggle invocation on a paused file persists the paused
\* phase with the time_left and pomodoros of the file.
C19_PauseNotCharged ==
    [][/\ (UpdateStep /\ self.status \in {"paused", "idle"})
            => Rec(self') = Rec(self) /\ notes' = <<>>
       /\ (CommandStep("status") /\ file # NoFile /\ file.status = "paused")
            => Rec(file') = Rec(file)
       /\ (CommandStep("toggle") /\ file # NoFile /\ file.status = "paused")
            => /\ file'.status = file.previous_status
               /\ file'.status \in {"work", "short_break", "long_break"}
               /\ file'.time_left = file.time_left
               /\ file'.pomodoros = file.pomodoros]_vars

\* a work session paused with 1400 s left was resumed 2000 s after the
\* invocation before, which was not the pausing one
C19_Witness ==
    /\ pc = "wait"
    /\ outcome = "ok"
    /\ run.action = "toggle"
    /\ Len(run.recs) = 2
    /\ RunBefore.status = PAUSED
    /\ RunBefore.previous_status = WORK
    /\ RunBefore.time_left = POMODORO - 100
    /\ waited = 2000 * TicksPerSec
    /\ file.status = WORK
    /\ file.time_left = POMODORO - 100

\* a process starts: the step is not the damage from outside
LoadStep == pc = "wait" /\ ~(file' \in Damaged /\ file' # file)

\* C15 as claimed: whatever the file is, the process gets past
\* get_pomodoro, with a new Pomodoro() when the file is absent or does not
\* hold the pickle of a Pomodoro, and does not die.
C15_LoadNeverFails ==
    [][LoadStep =>
        /\ pc' = "loaded"
        /\ outcome' # "crash"
        /\ ~is_pickle(file) => Rec(self') = Rec(Pomodoro)]_vars

\* C16 as claimed: when a process has been killed the file is absent or
\* holds a complete pickle.
C16_AtomicPersist ==
    (pc = "wait" /\ outcome = "killed") => (file = NoFile \/ is_pickle(file))

\* save_pomodoro raises: the process ends, not killed, at open() or with
\* nothing written
SaveFails ==
    /\ pc' = "wait"
    /\ outcome' # "killed"
    /\ pc = "matched" \/ (pc = "opened" /\ file' = file)

\* C18: when save_pomodoro raises the process ends with a non-zero exit
\* and without a payload, and never ends normally with the file not
\* holding what it computed.
C18_WriteFailureSurfaced ==
    [][/\ SaveFails => outcome' = "crash"
       /\ (pc # "wait" /\ outcome' = "ok") => file' = self']_vars

\* the write failed after open() had emptied the file, and the process
\* ended with an error
C18_Witness ==
    /\ pc = "wait"
    /\ outcome = "crash"
    /\ file = Bad("truncated")
    /\ self.status = WORK
    /\ self.since_update = 0
    /\ run.action = "toggle"

\* both processes have ended
RaceOver == \A i \in 1..2 : racers[i].pc \in {"done", "dead"}

C20_NoDrift ==
    (is_pickle(file) /\ file.status \in Active /\ crashes = 0) =>
        (drift < TicksPerSec /\ drift > 0 - TicksPerSec)

\* C21: a record with status PAUSED has one of WORK, SHORT_BREAK and
\* LONG_BREAK in previous_status, in the object of the process and in the
\* file, and toggle on a paused object leaves it in one of these three.
C21_PausedRemembersPhase ==
    [][/\ self.status = PAUSED => self.previous_status \in Active
       /\ self'.status = PAUSED => self'.previous_status \in Active
       /\ (is_pickle(file') /\ file'.status = PAUSED) =>
              file'.previous_status \in Active
       /\ (CommandStep("toggle") /\ self.status = PAUSED) =>
              /\ self'.status \in Active
              /\ self'.status = self.previous_status]_vars

\* a paused short break was resumed by toggle
C21_Witness ==
    /\ pc = "wait"
    /\ run.action = "toggle"
    /\ RunBefore.status = PAUSED
    /\ RunBefore.previous_status = SHORT
    /\ self.status = SHORT
    /\ is_pickle(file)
    /\ file.status = SHORT

\* the phase a record is in: the interrupted one when it is paused
effective_phase(p) == IF p.status = PAUSED THEN p.previous_status ELSE p.status

\* the configured length of a phase
phase_duration(status) ==
    CASE status = WORK -> POMODORO
      [] status = SHORT -> SHORT_BREAK
      [] status = LONG -> LONG_BREAK
      [] OTHER -> 0

\* C22: the saved record is IDLE exactly when its time_left is 0, and
\* when it is not IDLE its time_left is above 0 and at most the length of
\* its phase, the interrupted phase when it is paused.
C22_TimeLeftInPhase ==
    is_pickle(file) =>
        /\ file.status = IDLE <=> file.time_left = 0
        /\ file.status # IDLE =>
              /\ file.time_left > 0
              /\ file.time_left <= phase_duration(effective_phase(file))

\* a work session paused after 100 seconds is saved with 1400 seconds left
C22_Witness ==
    /\ pc = "wait"
    /\ is_pickle(file)
    /\ file.status = PAUSED
    /\ file.previous_status = WORK
    /\ file.time_left = POMODORO - 100

====
